---------------------------- MODULE Spec2Model ----------------------------
(***************************************************************************)
(* A model of bikewheelcalc/bicycle_wheel.py: the classes Rim, Hub, Spoke  *)
(* and BicycleWheel.                                                       *)
(*                                                                         *)
(* Python numbers are records [ty, n, d]: ty is the Python type            *)
(* ("NoneType", "int" or "float") and n/d the value as a fraction in       *)
(* lowest terms.  A float with d = 0 is one of IEEE's special values:      *)
(* n = 1 is inf, n = -1 is -inf and n = 0 is nan (numpy's float64 division *)
(* by zero warns and yields them; it does not raise).  Rounding of finite  *)
(* floats is not modelled: finite arithmetic is exact.                     *)
(*                                                                         *)
(* A call that raises is recorded in ret.status by the exception's name.   *)
(***************************************************************************)
EXTENDS Integers, Sequences, FiniteSets, TLC

VARIABLES rim,    \* the Rim most recently constructed (a Rim record or NoRim)
          hub,    \* the Hub most recently constructed (a Hub record or NoHub)
          wheel,  \* the BicycleWheel: [rim, hub, spokes]
          ret     \* the last call: its name, arguments, outcome and warnings

vars == <<rim, hub, wheel, ret>>

---------------------------------------------------------------------------
(* Numbers *)

Abs(x) == IF x < 0 THEN -x ELSE x

Sign(x) == IF x < 0 THEN -1 ELSE IF x = 0 THEN 0 ELSE 1

RECURSIVE Gcd(_, _)
Gcd(a, b) == IF b = 0 THEN a ELSE Gcd(b, a % b)

\* The fraction n/d in lowest terms, the denominator not negative.
Norm(n, d) ==
    IF d = 0 THEN <<Sign(n), 0>>
    ELSE LET g == Gcd(Abs(n), Abs(d))
             s == Sign(d)
         IN  <<(s * n) \div g, (s * d) \div g>>

None == [ty |-> "NoneType", n |-> 0, d |-> 1]

PyInt(k) == [ty |-> "int", n |-> k, d |-> 1]

PyFloat(n, d) == LET q == Norm(n, d) IN [ty |-> "float", n |-> q[1], d |-> q[2]]

NaN == PyFloat(0, 0)

IsNone(x) == x.ty = "NoneType"

\* isinstance(x, float): an int is not a float
IsFloat(x) == x.ty = "float"

IsNumber(x) == x.ty \in {"int", "float"}

IsNaN(x) == x.ty = "float" /\ x.d = 0 /\ x.n = 0

IsFinite(x) == IsNumber(x) /\ x.d # 0

\* The type of x (+|-|*) y: int only when both are int.
ArithTy(x, y) == IF x.ty = "int" /\ y.ty = "int" THEN "int" ELSE "float"

Typed(ty, q) == [ty |-> ty, n |-> q[1], d |-> q[2]]

\* x + y.  inf + (-inf) and anything with nan are nan.
Add(x, y) ==
    IF x.d = 0 \/ y.d = 0
    THEN IF IsNaN(x) \/ IsNaN(y) THEN NaN
         ELSE IF x.d = 0 /\ y.d = 0
              THEN (IF x.n = y.n THEN x ELSE NaN)
              ELSE IF x.d = 0 THEN x ELSE y
    ELSE LET l == (x.d \div Gcd(x.d, y.d)) * y.d
         IN  Typed(ArithTy(x, y), Norm(x.n * (l \div x.d) + y.n * (l \div y.d), l))

Neg(x) == [x EXCEPT !.n = -x.n]

Sub(x, y) == Add(x, Neg(y))

\* x * y.  inf * 0 is nan.
Mul(x, y) ==
    IF x.d = 0 \/ y.d = 0
    THEN PyFloat(x.n * y.n, 0)
    ELSE Typed(ArithTy(x, y), Norm(x.n * y.n, x.d * y.d))

\* x / y on floats (true division): x/0 is +-inf, 0/0 is nan, x/inf is 0.
Div(x, y) ==
    IF x.d = 0 /\ y.d = 0 THEN NaN
    ELSE IF y.d = 0 THEN PyFloat(0, 1)
    ELSE IF x.d = 0 THEN PyFloat(x.n * (IF y.n < 0 THEN -1 ELSE 1), 0)
    ELSE PyFloat(x.n * y.d, x.d * y.n)

\* np.abs
NpAbs(x) == [x EXCEPT !.n = Abs(x.n)]

\* x == y in Python: by value, whatever the types; nan equals nothing.
Eq(x, y) == IsNumber(x) /\ IsNumber(y) /\ ~IsNaN(x) /\ ~IsNaN(y)
            /\ x.n = y.n /\ x.d = y.d

\* x < y on finite numbers
Lt(x, y) == x.n * y.d < y.n * x.d

\* A stand-in for np.pi.  Every quantity the model compares is linear in it
\* (masses, inertias, rim angles), so any positive value keeps the
\* comparisons.
PI == PyFloat(22, 7)


RECURSIVE Pow(_, _)
\* x**k for an int k >= 1
Pow(x, k) == IF k = 1 THEN x ELSE Mul(x, Pow(x, k - 1))

True == [ty |-> "bool", n |-> 1, d |-> 1]

\* The outcome of a call: the exception's name or "ok", and the object returned.
Raise(exc, nothing) == [status |-> exc, value |-> nothing]

Return(v) == [status |-> "ok", value |-> v]

---------------------------------------------------------------------------
(* class Rim *)

\* No Rim object (the attribute is None).
NoRim ==
    [radius |-> None, area |-> None, I_rad |-> None, I_lat |-> None,
     J_tor |-> None, I_warp |-> None, young_mod |-> None, shear_mod |-> None,
     density |-> None, sec_type |-> "NoRim", sec_params |-> {}]

\* Rim.__init__: every argument is stored as given.
RimInit(radius, area, I_rad, I_lat, J_tor, I_warp, young_mod, shear_mod, density, sec_type, sec_params) ==
    [radius |-> radius, area |-> area, I_rad |-> I_rad, I_lat |-> I_lat,
     J_tor |-> J_tor, I_warp |-> I_warp, young_mod |-> young_mod,
     shear_mod |-> shear_mod, density |-> density, sec_type |-> sec_type,
     sec_params |-> sec_params]

\* Rim.general
RimGeneral(radius, area, I_rad, I_lat, J_tor, I_warp, young_mod, shear_mod, density) ==
    Return(RimInit(radius, area, I_rad, I_lat, J_tor, I_warp, young_mod,
                   shear_mod, density, "general", {}))

\* The local names of Rim.box bound when line 58 reads I_warp: the
\* parameters and the four assignments before it.  I_warp is assigned in the
\* body, which makes it a local, and nothing binds it before it is read.
BoxBoundLocals ==
    {"cls", "radius", "w", "h", "t", "young_mod", "shear_mod", "density",
     "area", "J_tor", "I_rad", "I_lat"}

BoxArea(w, h, t) ==
    Add(Mul(Mul(PyInt(2), Add(w, Div(t, PyInt(2)))), t),
        Mul(Mul(PyInt(2), Sub(h, Div(t, PyInt(2)))), t))

BoxJtor(w, h, t) ==
    Div(Mul(Mul(PyInt(2), t), Pow(Mul(w, h), 2)), Add(w, h))

\* 2*(t*(a+t)**3)/12 + 2*((b-t)*t**3/12 + (b-t)*t*(a/2)**2): I_rad is
\* BoxMoment(h, w, t) and I_lat is BoxMoment(w, h, t).
BoxMoment(a, b, t) ==
    Add(Div(Mul(PyInt(2), Mul(t, Pow(Add(a, t), 3))), PyInt(12)),
        Mul(PyInt(2),
            Add(Div(Mul(Sub(b, t), Pow(t, 3)), PyInt(12)),
                Mul(Mul(Sub(b, t), t), Pow(Div(a, PyInt(2)), 2)))))

\* Rim.box
RimBox(radius, w, h, t, young_mod, shear_mod, density) ==
    LET area  == BoxArea(w, h, t)
        J_tor == BoxJtor(w, h, t)
        I_rad == BoxMoment(h, w, t)
        I_lat == BoxMoment(w, h, t)
    IN  IF "I_warp" \notin BoxBoundLocals
        THEN Raise("UnboundLocalError", NoRim)
        ELSE Return(RimInit(radius, area, I_rad, I_lat, J_tor, None,
                            young_mod, shear_mod, density, "box",
                            {<<"closed", True>>, <<"w", w>>, <<"h", h>>,
                             <<"t", t>>}))

\* Rim.calc_mass: None when the density is None
RimCalcMass(r) ==
    IF ~IsNone(r.density)
    THEN Mul(Mul(Mul(Mul(r.density, PyInt(2)), PI), r.radius), r.area)
    ELSE None

\* Rim.calc_rot_inertia: None when the density is None
RimCalcRotInertia(r) ==
    IF ~IsNone(r.density)
    THEN Mul(RimCalcMass(r), Pow(r.radius, 2))
    ELSE None

---------------------------------------------------------------------------
(* class Hub *)

NoHub ==
    [diameter_nds |-> None, diameter_ds |-> None,
     width_nds |-> None, width_ds |-> None]

\* Hub.__init__.  An exception leaves the caller without a Hub.
HubInit(diameter, diameter_nds, diameter_ds, width, width_nds, width_ds, offset) ==
    LET d_nds == IF IsFloat(diameter_nds) THEN diameter_nds ELSE diameter
        d_ds  == IF IsFloat(diameter_ds) THEN diameter_ds ELSE diameter
    IN  IF IsFloat(width)
        THEN LET off == IF IsNone(offset) THEN PyFloat(0, 1) ELSE offset
                 w_nds == Add(Div(width, PyInt(2)), off)
                 w_ds  == Sub(Div(width, PyInt(2)), off)
             IN  IF ~IsNone(width_nds) \/ ~IsNone(width_ds)
                 THEN Raise("ValueError", NoHub)
                 ELSE Return([diameter_nds |-> d_nds, diameter_ds |-> d_ds,
                              width_nds |-> w_nds, width_ds |-> w_ds])
        ELSE IF IsFloat(width_nds) /\ IsFloat(width_ds)
        THEN Return([diameter_nds |-> d_nds, diameter_ds |-> d_ds,
                     width_nds |-> width_nds, width_ds |-> width_ds])
        ELSE Raise("ValueError", NoHub)

---------------------------------------------------------------------------
(* class Spoke *)

\* Spoke.__init__: n and b are numpy arrays of three floats (index 1 the
\* lateral, 2 the radial, 3 the tangential component: Python's 0, 1, 2).
\* The tension starts at 0.
SpokeInit(theta, n, b, length, diameter, young_mod, density) ==
    [theta |-> theta, n |-> n, b |-> b, length |-> length,
     diameter |-> diameter, young_mod |-> young_mod, density |-> density,
     tension |-> PyFloat(0, 1),
     EA |-> Mul(Mul(Div(PI, PyInt(4)), Pow(diameter, 2)), young_mod)]

\* Spoke.calc_mass: None when the density is None
SpokeCalcMass(s) ==
    IF ~IsNone(s.density)
    THEN Mul(Div(Mul(Mul(s.density, s.length), PI), PyInt(4)),
             Pow(s.diameter, 2))
    ELSE None

\* Spoke.calc_rot_inertia, about the spoke's centre of mass
SpokeCalcRotInertia(s) ==
    IF ~IsNone(s.density)
    THEN Div(Mul(SpokeCalcMass(s), Pow(Mul(s.length, s.n[2]), 2)),
             PyFloat(12, 1))
    ELSE None

---------------------------------------------------------------------------
(* class BicycleWheel *)

\* BicycleWheel.__init__: the attributes an instance has.
WheelInit == [spokes |-> <<>>, rim |-> NoRim, hub |-> NoHub]

\* The names of the instance's attributes: those __init__ sets.  The class
\* body defines methods only.
WheelAttrs == {"spokes", "rim", "hub"}

\* The names lace_cross_side can read: its parameters, the locals it
\* assigns, and the module's globals.
LaceCrossSideNames ==
    {"self", "n_spokes", "n_cross", "side", "direction", "offset",
     "diameter", "young_mod", "density", "offset_lat", "offset_rad",
     "hub_z", "hub_r", "s", "theta_rim", "theta_hub", "du", "dv", "dw",
     "length", "n", "b", "np", "warn", "Rim", "Hub", "Spoke", "BicycleWheel"}

RECURSIVE InsertByTheta(_, _)
\* s put into the sorted sequence q, after every element whose theta is not
\* larger
InsertByTheta(q, s) ==
    IF q = <<>> THEN <<s>>
    ELSE IF Lt(s.theta, Head(q).theta) THEN <<s>> \o q
    ELSE <<Head(q)>> \o InsertByTheta(Tail(q), s)

RECURSIVE SortByTheta(_)
SortByTheta(q) ==
    IF q = <<>> THEN <<>>
    ELSE InsertByTheta(SortByTheta(SubSeq(q, 1, Len(q) - 1)), q[Len(q)])

\* BicycleWheel.reorder_spokes: the spokes in the order of np.argsort of
\* their thetas (an insertion sort on arrays this short: ties keep their
\* order).
ReorderSpokes(w) == [w EXCEPT !.spokes = SortByTheta(w.spokes)]

\* The outcome of a method of the wheel: status, the value returned
\* and the wheel as the call leaves it.
WRaise(exc, w) == [status |-> exc, value |-> None, wheel |-> w, warnings |-> {}]

WReturn(v, w, warnings) == [status |-> "ok", value |-> v, wheel |-> w, warnings |-> warnings]

\* BicycleWheel.lace_cross_side.  Line 300 reads self.hub_width_ds and line
\* 301 self.hub_width_nds; line 302 reads the hub's diameters; in the loop,
\* line 307 reads s_dir before anything is appended.  Only a call whose loop
\* does not run (n_spokes <= 0) can get to reorder_spokes.
LaceCrossSide(w, n_spokes, n_cross, side, direction, offset, diameter, young_mod, density, offset_lat, offset_rad) ==
    IF "hub_width_ds" \notin WheelAttrs \/ "hub_width_nds" \notin WheelAttrs
    THEN WRaise("AttributeError", w)
    ELSE IF w.hub = NoHub
    THEN WRaise("AttributeError", w)
    ELSE IF n_spokes > 0 /\ "s_dir" \notin LaceCrossSideNames
    THEN WRaise("NameError", w)
    ELSE WReturn(True, ReorderSpokes(w), {})

\* n // m on ints
FloorDiv(n, m) == n \div m

\* BicycleWheel.lace_cross: the spokes are removed, then each side is laced;
\* an exception of a lace_cross_side call ends the call where it is.
LaceCross(w, n_spokes, n_cross, diameter, young_mod, density, offset_lat, offset_rad) ==
    LET w0 == [w EXCEPT !.spokes = <<>>]
        half == FloorDiv(n_spokes, 2)
        r1 == LaceCrossSide(w0, half, n_cross, 1, 1, PyFloat(0, 1), diameter, young_mod, density, offset_lat, offset_rad)
    IN  IF r1.status # "ok" THEN r1
        ELSE IF half = 0 THEN WRaise("ZeroDivisionError", r1.wheel)
        ELSE LET r2 == LaceCrossSide(r1.wheel, half, n_cross, 1, 1, Div(PI, PyInt(half)), diameter, young_mod, density, offset_lat, offset_rad)
             IN  IF r2.status # "ok" THEN r2
                 ELSE WReturn(True, r2.wheel, {})

\* BicycleWheel.lace_radial
LaceRadial(w, n_spokes, diameter, young_mod, density, offset_lat, offset_rad) ==
    LaceCross(w, n_spokes, 0, diameter, young_mod, density, offset_lat, offset_rad)

\* SetTensions with its first loop starting at Python index 2: spokes[0]
\* keeps the tension it had.
SetTensionsFromThird(spokes, T_l, T_r) ==
    [i \in 1..Len(spokes) |->
        [spokes[i] EXCEPT !.tension = IF i = 1 THEN @ ELSE IF i % 2 = 1 THEN T_l ELSE T_r]]

\* Tension T_l to the spokes of even Python index (0, 2, ...: the odd
\* places of the sequence), T_r to the others.
SetTensions(spokes, T_l, T_r) ==
    [i \in 1..Len(spokes) |->
        [spokes[i] EXCEPT !.tension = IF i % 2 = 1 THEN T_l ELSE T_r]]

\* |s_l.n[0]*s_r.n[1]| + |s_r.n[0]*s_l.n[1]|
TensionDenominator(s_l, s_r) ==
    Add(NpAbs(Mul(s_l.n[1], s_r.n[2])), NpAbs(Mul(s_r.n[1], s_l.n[2])))

\* apply_tension with the two sides' lateral components exchanged in the
\* numerators and quotients, and
ApplyTensionSwapped(w, T_avg, T_left, T_right) ==
    IF Len(w.spokes) < 2 THEN WRaise("IndexError", w)
    ELSE
    LET s_l == w.spokes[1]
        s_r == w.spokes[2]
    IN  IF ~IsNone(T_avg)
        THEN LET T_l == Div(Mul(Mul(PyInt(2), T_avg), NpAbs(s_l.n[1])),
                            TensionDenominator(s_l, s_r))
                 T_r == Div(Mul(Mul(PyInt(2), T_avg), NpAbs(s_r.n[1])),
                            TensionDenominator(s_l, s_r))
             IN  WReturn(None, [w EXCEPT !.spokes = SetTensions(w.spokes, T_l, T_r)], {})
        ELSE IF ~IsNone(T_right)
        THEN WReturn(None, [w EXCEPT !.spokes = SetTensions(w.spokes, Mul(NpAbs(Div(s_l.n[1], s_r.n[1])), T_right), T_right)], {})
        ELSE IF ~IsNone(T_left)
        THEN WReturn(None, [w EXCEPT !.spokes = SetTensions(w.spokes, T_left, Mul(NpAbs(Div(s_r.n[1], s_l.n[1])), T_left))], {})
        ELSE WRaise("TypeError", w)

\* apply_tension that slackens the wheel when no argument is given, instead
\* of raising.
ApplyTensionDefault(w, T_avg, T_left, T_right) ==
    IF Len(w.spokes) < 2 THEN WRaise("IndexError", w)
    ELSE IF IsNone(T_avg) /\ IsNone(T_left) /\ IsNone(T_right)
    THEN WReturn(None, [w EXCEPT !.spokes = SetTensions(w.spokes, PyFloat(0, 1), PyFloat(0, 1))], {})
    ELSE WReturn(None, [w EXCEPT !.spokes = SetTensions(w.spokes, PyFloat(1, 1), PyFloat(1, 1))], {})

\* BicycleWheel.apply_tension.  Lines 353-354 index the first two spokes
\* before any argument is looked at.  The components of n are numpy floats:
\* a division by zero yields inf or nan.
ApplyTension(w, T_avg, T_left, T_right) ==
    IF Len(w.spokes) < 2 THEN WRaise("IndexError", w)
    ELSE
    LET s_l == w.spokes[1]
        s_r == w.spokes[2]
    IN  IF ~IsNone(T_avg)
        THEN LET T_l == Div(Mul(Mul(PyInt(2), T_avg), NpAbs(s_r.n[1])),
                            TensionDenominator(s_l, s_r))
                 T_r == Div(Mul(Mul(PyInt(2), T_avg), NpAbs(s_l.n[1])),
                            TensionDenominator(s_l, s_r))
             IN  WReturn(None, [w EXCEPT !.spokes = SetTensions(SetTensions(w.spokes, T_l, T_r), T_l, T_r)], {})
        ELSE IF ~IsNone(T_right)
        THEN LET T_r == T_right
                 T_l == Mul(NpAbs(Div(s_r.n[1], s_l.n[1])), T_right)
             IN  WReturn(None, [w EXCEPT !.spokes = SetTensions(w.spokes, T_l, T_r)], {})
        ELSE IF ~IsNone(T_left)
        THEN LET T_l == T_left
                 T_r == Mul(NpAbs(Div(s_l.n[1], s_r.n[1])), T_left)
             IN  WReturn(None, [w EXCEPT !.spokes = SetTensions(w.spokes, T_l, T_r)], {})
        ELSE WRaise("TypeError", w)

RECURSIVE SumSeq(_)
\* the sum of a sequence of numbers, from 0.
SumSeq(q) == IF q = <<>> THEN PyFloat(0, 1) ELSE Add(SumSeq(SubSeq(q, 1, Len(q) - 1)), q[Len(q)])

RimWarning == "Rim density is not specified."

SpokeWarning == "Some spoke densities are not specified."

\* BicycleWheel.calc_mass: a None mass counts as 0, each on its own.
CalcMass(w) ==
    IF w.rim = NoRim THEN WRaise("AttributeError", w)
    ELSE
    LET m0 == RimCalcMass(w.rim)
        m_rim == IF IsNone(m0) THEN PyFloat(0, 1) ELSE m0
        m_spokes == [i \in 1..Len(w.spokes) |-> SpokeCalcMass(w.spokes[i])]
        anyNone == \E i \in 1..Len(w.spokes) : IsNone(m_spokes[i])
        m_known == [i \in 1..Len(w.spokes) |-> IF IsNone(m_spokes[i]) THEN PyFloat(0, 1) ELSE m_spokes[i]]
    IN  WReturn(Add(m_rim, SumSeq(m_known)), w,
                (IF IsNone(m0) THEN {RimWarning} ELSE {})
                \cup (IF anyNone THEN {SpokeWarning} ELSE {}))

\* mass * (mid_pt[0]**2 + mid_pt[1]**2) of lines 442-445: the spoke's mass
\* at the midpoint between its rim point and its hub point.
SpokeParallelAxis(w, s) ==
    LET rim_pt == <<PyFloat(0, 1), Add(Neg(w.rim.radius), s.b[2]), PyFloat(0, 1)>>
        hub_pt == [k \in 1..3 |-> Add(rim_pt[k], Mul(s.n[k], s.length))]
        mid_pt == [k \in 1..3 |-> Mul(PyFloat(1, 2), Add(rim_pt[k], hub_pt[k]))]
    IN  Mul(SpokeCalcMass(s), Add(Pow(mid_pt[1], 2), Pow(mid_pt[2], 2)))

\* BicycleWheel.calc_rot_inertia: with any spoke inertia None, the spokes'
\* term is 0 as a whole.
CalcRotInertia(w) ==
    IF w.rim = NoRim THEN WRaise("AttributeError", w)
    ELSE
    LET I0 == RimCalcRotInertia(w.rim)
        I_rim == IF IsNone(I0) THEN PyFloat(0, 1) ELSE I0
        I_spk == [i \in 1..Len(w.spokes) |-> SpokeCalcRotInertia(w.spokes[i])]
        anyNone == \E i \in 1..Len(w.spokes) : IsNone(I_spk[i])
        I_spokes == IF anyNone THEN PyFloat(0, 1)
                    ELSE SumSeq([i \in 1..Len(w.spokes) |-> Add(I_spk[i], SpokeParallelAxis(w, w.spokes[i]))])
    IN  WReturn(Add(I_rim, I_spokes), w,
                (IF IsNone(I0) THEN {RimWarning} ELSE {})
                \cup (IF anyNone THEN {SpokeWarning} ELSE {}))

---------------------------------------------------------------------------
(* The caller: the values it passes *)

\* The most spokes the caller appends to wheel.spokes by hand.
MaxSpokes == 3

\* Hub(...) arguments: the docstring's values, None, and ints.
HubDiameters == {PyFloat(1, 20)}

HubSideDiameters == {None, PyFloat(1, 25)}

HubWidths == {None, PyFloat(1, 20), PyFloat(3, 50), PyInt(1)}

HubWidthsNds == {None, PyFloat(3, 100), PyInt(1)}

HubWidthsDs == {None, PyFloat(1, 50), PyInt(1)}

HubOffsets == {None, PyFloat(1, 100), PyInt(0)}

\* Rim.box and Rim.general arguments (lengths in mm, moduli in GPa).
RimRadii == {PyFloat(300, 1), PyFloat(311, 1)}

BoxWidths == {PyFloat(10, 1), PyFloat(12, 1)}

BoxHeights == {PyFloat(15, 1), PyFloat(10, 1)}

BoxThicknesses == {PyFloat(2, 1), PyFloat(3, 2)}

RimAreas == {PyFloat(100, 1), PyFloat(84, 1)}

Densities == {None, PyFloat(27, 10)}

\* The rims and the hub the caller gives the wheel.
WheelRims ==
    {RimGeneral(PyFloat(30, 1), PyFloat(1, 1), PyFloat(1, 1), PyFloat(1, 1), PyFloat(1, 1), PyFloat(0, 1), PyFloat(70, 1), PyFloat(26, 1), d).value : d \in {None, PyFloat(3, 1)}}

WheelHubs ==
    {HubInit(PyFloat(5, 1), None, None, PyFloat(5, 1), None, None, None).value}

\* Spoke directions: unit vectors (lateral, radial, tangential).
Direction(a, b, c, den) == <<PyFloat(a, den), PyFloat(b, den), PyFloat(c, den)>>

SpokeDirections ==
    {Direction(3, 4, 0, 5), Direction(-3, 4, 0, 5), Direction(-4, 3, 0, 5), Direction(0, 1, 0, 1)}

\* A spoke the caller constructs: Spoke(theta, n, b, length, diameter,
\* young_mod, density).
NewSpoke(theta, n, density) ==
    SpokeInit(theta, n, <<PyFloat(0, 1), PyFloat(1, 1), PyFloat(0, 1)>>, PyFloat(25, 1), PyFloat(1, 5), PyFloat(210, 1), density)

Thetas == {PyFloat(0, 1), PyFloat(1, 1), PyFloat(2, 1)}

\* Spokes that differ in where they sit on the rim,
LaceSpokes == {NewSpoke(th, Direction(3, 4, 0, 5), None) : th \in Thetas}

\* in direction,
TensionSpokes == {NewSpoke(PyFloat(0, 1), n, None) : n \in SpokeDirections}

\* and in density and direction.
InertiaSpokes ==
    {NewSpoke(PyFloat(0, 1), n, d) : n \in {Direction(3, 4, 0, 5), Direction(-4, 3, 0, 5)}, d \in {None, PyFloat(8, 1)}}

Tensions == {None, PyFloat(800, 1), PyFloat(0, 1)}

LaceCounts == {0, 1, 2, 4, 8}

LaceCrossings == {0, 1, 3}

---------------------------------------------------------------------------
(* The calls *)

Call(op, args, r) ==
    [op |-> op, args |-> args, status |-> r.status, value |-> r.value, warnings |-> {}]

WCall(op, args, r) ==
    [op |-> op, args |-> args, status |-> r.status, value |-> r.value, warnings |-> r.warnings]

Init ==
    /\ rim = NoRim
    /\ hub = NoHub
    /\ wheel = WheelInit
    /\ ret = [op |-> "BicycleWheel", args |-> <<>>, status |-> "ok", value |-> None, warnings |-> {}]

\* r = Rim.general(...)
NewRimGeneral ==
    \E radius \in RimRadii, area \in RimAreas, density \in Densities :
        LET r == RimGeneral(radius, area, PyFloat(1, 1), PyFloat(1, 1), PyFloat(1, 1), PyFloat(0, 1), PyFloat(70, 1), PyFloat(26, 1), density)
        IN  /\ rim' = r.value
            /\ ret' = Call("Rim.general", [radius |-> radius, area |-> area, density |-> density], r)
            /\ UNCHANGED <<hub, wheel>>

\* r = Rim.box(...): an exception leaves r as it was.
NewRimBox ==
    \E radius \in RimRadii, w \in BoxWidths, h \in BoxHeights, t \in BoxThicknesses, density \in Densities :
        LET r == RimBox(radius, w, h, t, PyFloat(70, 1), PyFloat(26, 1), density)
        IN  /\ rim' = IF r.status = "ok" THEN r.value ELSE rim
            /\ ret' = Call("Rim.box", [radius |-> radius, w |-> w, h |-> h, t |-> t, young_mod |-> PyFloat(70, 1), shear_mod |-> PyFloat(26, 1), density |-> density], r)
            /\ UNCHANGED <<hub, wheel>>

\* h = Hub(...): an exception leaves h as it was.
NewHub ==
    \E diameter \in HubDiameters, diameter_nds \in HubSideDiameters, width \in HubWidths, width_nds \in HubWidthsNds, width_ds \in HubWidthsDs, offset \in HubOffsets :
        LET r == HubInit(diameter, diameter_nds, None, width, width_nds, width_ds, offset)
        IN  /\ hub' = IF r.status = "ok" THEN r.value ELSE hub
            /\ ret' = Call("Hub", [diameter |-> diameter, diameter_nds |-> diameter_nds, diameter_ds |-> None, width |-> width, width_nds |-> width_nds, width_ds |-> width_ds, offset |-> offset], r)
            /\ UNCHANGED <<rim, wheel>>

\* wheel.rim = r
AssignRim ==
    \E r \in WheelRims :
        /\ wheel' = [wheel EXCEPT !.rim = r]
        /\ ret' = [op |-> "wheel.rim", args |-> <<>>, status |-> "ok", value |-> None, warnings |-> {}]
        /\ UNCHANGED <<rim, hub>>

\* wheel.hub = h
AssignHub ==
    \E h \in WheelHubs :
        /\ wheel' = [wheel EXCEPT !.hub = h]
        /\ ret' = [op |-> "wheel.hub", args |-> <<>>, status |-> "ok", value |-> None, warnings |-> {}]
        /\ UNCHANGED <<rim, hub>>

\* wheel.spokes.append(Spoke(...)), s one of the spokes of S
AddSpoke(S) ==
    /\ Len(wheel.spokes) < MaxSpokes
    /\ \E s \in S :
        /\ wheel' = [wheel EXCEPT !.spokes = Append(@, s)]
        /\ ret' = [op |-> "Spoke", args |-> <<>>, status |-> "ok", value |-> None, warnings |-> {}]
    /\ UNCHANGED <<rim, hub>>

\* A method call on the wheel with outcome r.
WheelCall(op, args, r) ==
    /\ wheel' = r.wheel
    /\ ret' = WCall(op, args, r)
    /\ UNCHANGED <<rim, hub>>

CallLaceRadial ==
    \E n_spokes \in LaceCounts :
        WheelCall("lace_radial", [n_spokes |-> n_spokes, n_cross |-> 0],
                  LaceRadial(wheel, n_spokes, PyFloat(1, 5), PyFloat(210, 1), None, PyFloat(0, 1), PyFloat(0, 1)))

CallLaceCross ==
    \E n_spokes \in LaceCounts, n_cross \in LaceCrossings :
        WheelCall("lace_cross", [n_spokes |-> n_spokes, n_cross |-> n_cross],
                  LaceCross(wheel, n_spokes, n_cross, PyFloat(1, 5), PyFloat(210, 1), None, PyFloat(0, 1), PyFloat(0, 1)))

CallLaceCrossSide ==
    \E n_spokes \in LaceCounts, n_cross \in LaceCrossings, side \in {-1, 1} :
        WheelCall("lace_cross_side", [n_spokes |-> n_spokes, n_cross |-> n_cross, side |-> side],
                  LaceCrossSide(wheel, n_spokes, n_cross, side, 1, PyFloat(0, 1), PyFloat(1, 5), PyFloat(210, 1), None, PyFloat(0, 1), PyFloat(0, 1)))

CallApplyTension ==
    \E T_avg \in Tensions, T_left \in Tensions, T_right \in Tensions :
        WheelCall("apply_tension", [T_avg |-> T_avg, T_left |-> T_left, T_right |-> T_right],
                  ApplyTension(wheel, T_avg, T_left, T_right))

CallCalcMass == WheelCall("calc_mass", <<>>, CalcMass(wheel))

CallCalcRotInertia == WheelCall("calc_rot_inertia", <<>>, CalcRotInertia(wheel))

---------------------------------------------------------------------------
(* The specifications *)

\* Hub construction
NextHub == NewHub

SpecHub == Init /\ [][NextHub]_vars

\* Rim construction
NextRim == NewRimGeneral \/ NewRimBox

SpecRim == Init /\ [][NextRim]_vars

\* Lacing a wheel
NextLace ==
    \/ AssignRim
    \/ AssignHub
    \/ AddSpoke(LaceSpokes)
    \/ CallLaceRadial
    \/ CallLaceCross
    \/ CallLaceCrossSide

SpecLace == Init /\ [][NextLace]_vars

\* Tensioning a wheel
NextTension ==
    \/ AddSpoke(TensionSpokes)
    \/ CallApplyTension

SpecTension == Init /\ [][NextTension]_vars

\* Mass and inertia of a wheel
NextInertia ==
    \/ AssignRim
    \/ AddSpoke(InertiaSpokes)
    \/ CallCalcMass
    \/ CallCalcRotInertia

SpecInertia == Init /\ [][NextInertia]_vars


---------------------------------------------------------------------------
(* Lacing: C1, C2, C3 (under SpecLace) *)

IsLacing(op) == op \in {"lace_radial", "lace_cross", "lace_cross_side"}

HasRimAndHub == wheel.rim # NoRim /\ wheel.hub # NoHub

\* The rim angle of spoke s of a side of n spokes: 2*np.pi/n*s + offset
ThetaRim(n, s, offset) == Add(Mul(Div(Mul(PyInt(2), PI), PyInt(n)), PyInt(s)), offset)

\* How many of the wheel's spokes sit at the angles of a side of n spokes
\* with that offset.
InPhaseGroup(n, offset) ==
    Cardinality({i \in 1..Len(wheel.spokes) :
                    \E s \in 0..(n - 1) : Eq(wheel.spokes[i].theta, ThetaRim(n, s, offset))})

Sorted(q) == \A i \in 1..(Len(q) - 1) : ~Lt(q[i + 1].theta, q[i].theta)

\* C1: lace_cross(n_spokes, n_cross) and lace_radial(n_spokes), n_spokes
\* even and at least 2, on a wheel with rim and hub, complete and leave
\* n_spokes spokes, n_spokes/2 in each side's phase group.
C1_LaceCrossCount ==
    (/\ ret.op \in {"lace_radial", "lace_cross"}
     /\ ret.args.n_spokes >= 2 /\ ret.args.n_spokes % 2 = 0
     /\ HasRimAndHub)
    => /\ ret.status = "ok"
       /\ Len(wheel.spokes) = ret.args.n_spokes
       /\ InPhaseGroup(ret.args.n_spokes \div 2, PyFloat(0, 1)) = ret.args.n_spokes \div 2
       /\ InPhaseGroup(ret.args.n_spokes \div 2, Div(PI, PyInt(ret.args.n_spokes \div 2))) = ret.args.n_spokes \div 2

\* C2: a lacing call on a wheel with rim and hub returns, and the spokes are
\* then in ascending order of theta.
C2_SortedAfterLacing ==
    (IsLacing(ret.op) /\ HasRimAndHub) => (ret.status = "ok" /\ Sorted(wheel.spokes))

\* C3: a lace_cross or lace_radial call on a wheel that already has spokes
\* returns with the n_spokes spokes of that call and no others.
C3_LacingReplaces ==
    [][(/\ ret'.op \in {"lace_radial", "lace_cross"}
        /\ ret'.args.n_spokes >= 2 /\ ret'.args.n_spokes % 2 = 0
        /\ wheel.rim # NoRim /\ wheel.hub # NoHub
        /\ Len(wheel.spokes) > 0)
       => (/\ ret'.status = "ok"
           /\ Len(wheel'.spokes) = ret'.args.n_spokes
           /\ \A i \in 1..Len(wheel'.spokes) : wheel'.spokes[i].tension = PyFloat(0, 1))]_vars

---------------------------------------------------------------------------
(* Tension: C4, C5, C6 (under SpecTension) *)

Given(a) == Cardinality({k \in {"T_avg", "T_left", "T_right"} : ~IsNone(a[k])})

\* The first two spokes' tensions and components after a call.
T_l == wheel.spokes[1].tension
T_r == wheel.spokes[2].tension
n_l0 == wheel.spokes[1].n[1]
n_l1 == wheel.spokes[1].n[2]
n_r0 == wheel.spokes[2].n[1]
n_r1 == wheel.spokes[2].n[2]

TensionApplied == ret.op = "apply_tension" /\ Len(wheel.spokes) >= 2

C6_NoArgumentRaises ==
    [][(ret'.op = "apply_tension" /\ Given(ret'.args) = 0)
       => (ret'.status \in {"TypeError", "IndexError"} /\ wheel' = wheel)]_vars

C6_Witness ==
    /\ TensionApplied /\ Given(ret.args) = 0 /\ ret.status = "TypeError"
    /\ T_l.n > 0

---------------------------------------------------------------------------
(* Hub construction: C7, C8 (under SpecHub) *)

\* C7: a Hub is constructed only from a symmetric width without per-side
\* widths, or from both per-side widths without a symmetric width.
C7_OnlyAcceptedWidths ==
    (ret.op = "Hub" /\ ret.status = "ok")
    => \/ (~IsNone(ret.args.width) /\ IsNone(ret.args.width_nds) /\ IsNone(ret.args.width_ds))
       \/ (IsNone(ret.args.width) /\ ~IsNone(ret.args.width_nds) /\ ~IsNone(ret.args.width_ds))

\* The offset of a call, 0 when omitted.
OffsetOf(a) == IF IsNone(a.offset) THEN PyFloat(0, 1) ELSE a.offset

\* C8: a numeric width without per-side widths constructs the hub with
\* width_nds = width/2 + offset and width_ds = width/2 - offset.
C8_SymmetricWidth ==
    (ret.op = "Hub" /\ IsNumber(ret.args.width) /\ IsNone(ret.args.width_nds) /\ IsNone(ret.args.width_ds))
    => /\ ret.status = "ok"
       /\ ret.value = hub
       /\ Eq(hub.width_nds, Add(Div(ret.args.width, PyInt(2)), OffsetOf(ret.args)))
       /\ Eq(hub.width_ds, Sub(Div(ret.args.width, PyInt(2)), OffsetOf(ret.args)))
       /\ Eq(Add(hub.width_nds, hub.width_ds), ret.args.width)
       /\ Eq(Sub(hub.width_nds, hub.width_ds), Mul(PyInt(2), OffsetOf(ret.args)))

---------------------------------------------------------------------------
(* Rim construction: C9 (under SpecRim) *)

\* C9: Rim.box does not fail and returns a 'box' Rim with the section
\* constants of w, h, t, the arguments as given, and w, h, t in sec_params.
C9_BoxRim ==
    ret.op = "Rim.box"
    => /\ ret.status = "ok"
       /\ rim = ret.value
       /\ rim.sec_type = "box"
       /\ rim.area = BoxArea(ret.args.w, ret.args.h, ret.args.t)
       /\ rim.J_tor = BoxJtor(ret.args.w, ret.args.h, ret.args.t)
       /\ rim.I_rad = BoxMoment(ret.args.h, ret.args.w, ret.args.t)
       /\ rim.I_lat = BoxMoment(ret.args.w, ret.args.h, ret.args.t)
       /\ rim.radius = ret.args.radius
       /\ rim.young_mod = ret.args.young_mod
       /\ rim.shear_mod = ret.args.shear_mod
       /\ rim.density = ret.args.density
       /\ {<<"w", ret.args.w>>, <<"h", ret.args.h>>, <<"t", ret.args.t>>} \subseteq rim.sec_params

---------------------------------------------------------------------------
(* Mass and inertia: C10 (under SpecInertia) *)

\* The contribution of what has a density; 0 for what has none.
RimInertiaOrZero == IF IsNone(wheel.rim.density) THEN PyFloat(0, 1) ELSE RimCalcRotInertia(wheel.rim)

SpokeInertiaOrZero(s) ==
    IF IsNone(s.density) THEN PyFloat(0, 1)
    ELSE Add(SpokeCalcRotInertia(s), SpokeParallelAxis(wheel, s))

SomeDensityUnset ==
    IsNone(wheel.rim.density) \/ \E i \in 1..Len(wheel.spokes) : IsNone(wheel.spokes[i].density)

\* C10: calc_rot_inertia on a wheel with a rim returns the finite sum of the
\* rim's and every spoke's contribution, a contribution without density
\* counting 0, and warns exactly when some density is unset.
C10_RotInertiaSum ==
    (ret.op = "calc_rot_inertia" /\ wheel.rim # NoRim)
    => /\ ret.status = "ok"
       /\ IsFinite(ret.value)
       /\ Eq(ret.value, Add(RimInertiaOrZero, SumSeq([i \in 1..Len(wheel.spokes) |-> SpokeInertiaOrZero(wheel.spokes[i])])))
       /\ (ret.warnings # {}) <=> SomeDensityUnset

---------------------------------------------------------------------------
(* Spoke stiffness: C11 (under SpecSpoke) *)

\* np.cross(u, v) of two 3-vectors
Cross(u, v) ==
    <<Sub(Mul(u[2], v[3]), Mul(u[3], v[2])),
      Sub(Mul(u[3], v[1]), Mul(u[1], v[3])),
      Sub(Mul(u[1], v[2]), Mul(u[2], v[1]))>>

\* the rim axial vector e3
E3 == <<PyFloat(0, 1), PyFloat(0, 1), PyFloat(1, 1)>>

\* np.eye(3)
Eye3 == [i \in 1..3 |-> [j \in 1..3 |-> IF i = j THEN PyFloat(1, 1) ELSE PyFloat(0, 1)]]

\* K_e*np.outer(n, n) + K_t*(np.eye(3) - np.outer(n, n)); np.outer(n, n)[i][j]
\* is n[i]*n[j]
ForceBlock(n, K_e, K_t) ==
    [i \in 1..3 |-> [j \in 1..3 |->
        Add(Mul(K_e, Mul(n[i], n[j])), Mul(K_t, Sub(Eye3[i][j], Mul(n[i], n[j]))))]]

\* the dot product of two 3-vectors
Dot(u, v) == Add(Add(Mul(u[1], v[1]), Mul(u[2], v[2])), Mul(u[3], v[3]))

\* m.dot(v): the matrix times the column v
MatVec(m, v) == [i \in 1..3 |-> Dot(m[i], v)]

\* v.dot(m): the row v times the matrix
VecMat(v, m) == [j \in 1..3 |-> Dot(v, [i \in 1..3 |-> m[i][j]])]

\* Lines 194-199: k_f in the top-left block, dFdphi in the last column and
\* with the row of the mutant left at the zeros of np.zeros((4, 4)).
AssembleNoRow(k_f, dFdphi, dTdphi) ==
    [i \in 1..4 |-> [j \in 1..4 |->
        IF i <= 3 /\ j <= 3 THEN k_f[i][j]
        ELSE IF j = 4 /\ i <= 3 THEN dFdphi[i]
        ELSE IF i = 4 /\ j <= 3 THEN PyFloat(0, 1)
        ELSE dTdphi]]

\* Lines 194-199: k_f in the top-left block, dFdphi in the last column and
\* in the last row, dTdphi in the corner.
Assemble(k_f, dFdphi, dTdphi) ==
    [i \in 1..4 |-> [j \in 1..4 |->
        IF i <= 3 /\ j <= 3 THEN k_f[i][j]
        ELSE IF j = 4 /\ i <= 3 THEN dFdphi[i]
        ELSE IF i = 4 /\ j <= 3 THEN dFdphi[j]
        ELSE dTdphi]]

\* The 4x4 matrix of lines 186-201 (and 209-224) from the block k_f.
StiffnessMatrix(s, k_f) ==
    Assemble(k_f, MatVec(k_f, Cross(E3, s.b)), Dot(VecMat(Cross(s.b, E3), k_f), Cross(s.b, E3)))

\* Spoke.calc_k(tension): tension is the flag
SpokeCalcK(s, tension) ==
    LET K_e == Div(s.EA, s.length)
        K_t == IF tension THEN Div(s.tension, s.length) ELSE PyFloat(0, 1)
    IN  StiffnessMatrix(s, ForceBlock(s.n, K_e, K_t))

\* Spoke.calc_k_geom
SpokeCalcKGeom(s) ==
    StiffnessMatrix(s, ForceBlock(s.n, PyFloat(0, 1), Div(PyFloat(1, 1), s.length)))

\* Spokes that differ in direction, nipple offset and tension (the caller
\* sets s.tension).
NippleOffsets ==
    {<<PyFloat(0, 1), PyFloat(0, 1), PyFloat(0, 1)>>,
     <<PyFloat(-1, 2), PyFloat(1, 1), PyFloat(0, 1)>>,
     <<PyFloat(2, 1), PyFloat(-1, 1), PyFloat(3, 1)>>}

StiffnessDirections == {Direction(2, 1, 2, 3), Direction(-4, 3, 0, 5), Direction(3, 0, 4, 5), Direction(0, 1, 0, 1)}

StiffnessSpoke(n, b, T) ==
    [SpokeInit(PyFloat(0, 1), n, b, PyFloat(25, 1), PyFloat(1, 5), PyFloat(210, 1), None) EXCEPT !.tension = T]

StiffnessSpokes ==
    {StiffnessSpoke(n, b, T) : n \in StiffnessDirections, b \in NippleOffsets, T \in {PyFloat(0, 1), PyFloat(800, 1), PyFloat(1001, 2)}}

\* wheel.spokes = [s], s one of the spokes above
NewStiffnessSpoke ==
    \E s \in StiffnessSpokes :
        /\ wheel' = [wheel EXCEPT !.spokes = <<s>>]
        /\ ret' = [op |-> "Spoke", args |-> <<>>, status |-> "ok", value |-> None, warnings |-> {}]
        /\ UNCHANGED <<rim, hub>>

\* wheel.spokes[i].calc_k(tension=flag)
CallCalcK ==
    \E i \in 1..Len(wheel.spokes), flag \in BOOLEAN :
        /\ ret' = [op |-> "calc_k", args |-> [i |-> i, tension |-> flag], status |-> "ok", value |-> SpokeCalcK(wheel.spokes[i], flag), warnings |-> {}]
        /\ UNCHANGED <<rim, hub, wheel>>

\* wheel.spokes[i].calc_k_geom()
CallCalcKGeom ==
    \E i \in 1..Len(wheel.spokes) :
        /\ ret' = [op |-> "calc_k_geom", args |-> [i |-> i], status |-> "ok", value |-> SpokeCalcKGeom(wheel.spokes[i]), warnings |-> {}]
        /\ UNCHANGED <<rim, hub, wheel>>

NextSpoke ==
    \/ NewStiffnessSpoke
    \/ CallCalcK
    \/ CallCalcKGeom

SpecSpoke == Init /\ [][NextSpoke]_vars

\* C11: the matrix calc_k(tension=False) returns is symmetric,
\* k[i][j] == k[j][i] for all i, j, and so are those of calc_k(tension=True)
\* and calc_k_geom().
C11_StiffnessSymmetric ==
    ret.op \in {"calc_k", "calc_k_geom"}
    => \A i \in 1..4, j \in 1..4 : Eq(ret.value[i][j], ret.value[j][i])

\* calc_k(tension=False) on a spoke whose matrix has a rotation coupling and
\* off-diagonal terms in the 3x3 block.
C11_Witness ==
    /\ ret.op = "calc_k" /\ ~ret.args.tension
    /\ \A i \in 1..3 : ret.value[i][4].n # 0
    /\ \A i \in 1..3, j \in 1..3 : ret.value[i][j].n # 0
    /\ ret.value[4][4].n # 0
=============================================================================
